---- MODULE Spec2Model ----
(***************************************************************************)
(* Model of src/main.py: the ADB SMS sender.  main() checks for a ready    *)
(* device, obtains the recipient list and the message (from the -n/-m      *)
(* flags or from the interactive prompts), asks for confirmation and then  *)
(* runs the dispatch loop, one send_sms_intent per recipient with a sleep  *)
(* between consecutive recipients, and prints a summary.                   *)
(*                                                                         *)
(* Python strings are modelled as sequences of one-character strings, so   *)
(* that str.strip, str.split, str.lower and the substring test work on     *)
(* characters as the interpreter does.  An optional value is a sequence of *)
(* at most one element.                                                    *)
(* The model starts after a successful parser.parse_args(); the prompts    *)
(* always deliver a line, and KeyboardInterrupt is delivered only during   *)
(* the inter-recipient sleep, the one place where main() handles it.       *)
(***************************************************************************)
EXTENDS Integers, Sequences, FiniteSets, TLC

\* ------------------------------------------------------------------ bounds
MaxNumLen == 3      \* longest numbers string (flag or prompt), in characters
MaxMsgLen == 1      \* longest message string (flag or prompt), in characters
MaxDevLines == 1    \* device lines after the header in the output of "adb devices"

\* -------------------------------------------------------- program constants
DefaultDelay == 7   \* default of --delay

\* -------------------------------------------------------------- characters
SP == " "
TAB == "\t"
NL == "\n"
Whitespace == {SP, TAB, NL}

\* An optional value (a flag not given, a return code not yet known, a result
\* not yet computed) is a sequence of at most one element.
None == << >>
Some(x) == << x >>

\* ---------------------------------------------------------- str operations
\* s[a..b] as a sequence, empty when a > b
Slice(s, a, b) == IF a > b THEN << >> ELSE SubSeq(s, a, b)

RECURSIVE LStrip(_)
LStrip(s) ==
    IF s # << >> /\ Head(s) \in Whitespace THEN LStrip(Tail(s)) ELSE s

RECURSIVE RStrip(_)
RStrip(s) ==
    IF s # << >> /\ s[Len(s)] \in Whitespace
    THEN RStrip(Slice(s, 1, Len(s) - 1))
    ELSE s

\* str.strip(): leading and trailing whitespace removed
Strip(s) == RStrip(LStrip(s))

\* index of the first sep in s at or after position i, 0 when there is none
RECURSIVE FindFrom(_, _, _)
FindFrom(s, sep, i) ==
    IF i > Len(s) THEN 0
    ELSE IF s[i] = sep THEN i
    ELSE FindFrom(s, sep, i + 1)

\* str.split(sep) for a one-character sep: always at least one field
RECURSIVE Split(_, _)
Split(s, sep) ==
    LET k == FindFrom(s, sep, 1) IN
    IF k = 0 THEN << s >>
    ELSE << Slice(s, 1, k - 1) >> \o Split(Slice(s, k + 1, Len(s)), sep)

\* sub in s
IsPrefix(sub, s) == Len(sub) <= Len(s) /\ Slice(s, 1, Len(sub)) = sub
RECURSIVE Contains(_, _)
Contains(s, sub) ==
    IF Len(sub) > Len(s) THEN FALSE
    ELSE IsPrefix(sub, s) \/ Contains(Tail(s), sub)

\* str.lower() on the characters the confirmation prompt is given
LowerChar(c) == IF c = "Y" THEN "y" ELSE IF c = "N" THEN "n" ELSE c
Lower(s) == [k \in 1..Len(s) |-> LowerChar(s[k])]

\* truthiness of an optional string: None and "" are falsy
Truthy(opt) == opt # None /\ opt[1] # << >>

\* [x for x in s if keep]
RECURSIVE NonEmptyOnly(_)
NonEmptyOnly(fields) ==
    IF fields = << >> THEN << >>
    ELSE IF Head(fields) # << >> THEN << Head(fields) >> \o NonEmptyOnly(Tail(fields))
    ELSE NonEmptyOnly(Tail(fields))

StripEach(fields) == [k \in 1..Len(fields) |-> Strip(fields[k])]

\* all strings over an alphabet, up to a length
RECURSIVE StringsUpTo(_, _)
StringsUpTo(alphabet, n) ==
    IF n = 0 THEN { << >> }
    ELSE LET shorter == StringsUpTo(alphabet, n - 1) IN
         shorter \cup { Append(s, c) : s \in shorter, c \in alphabet }

\* ------------------------------------------------------------------ inputs
\* the numbers string, from -n or from the first prompt
NumberChars == {"1", "2", ",", SP}
NumberStrings == StringsUpTo(NumberChars, MaxNumLen)

\* the message string, from -m or from the second prompt
MessageChars == {"h", SP}
MessageStrings == StringsUpTo(MessageChars, MaxMsgLen)

\* args.numbers and args.message: None when the flag is absent
NumberArgs == {None} \cup {Some(s) : s \in NumberStrings}
MessageArgs == {None} \cup {Some(s) : s \in MessageStrings}

\* args.delay: any integer argparse accepts for type=int
Delays == {0 - 1, 0, DefaultDelay}

\* what the user types at "Proceed? (y/n): "
ConfirmAnswers ==
    { <<"y">>, <<"Y">>, <<SP, "y", SP>>, <<"n">>, << >>, <<"y", "e", "s">> }

\* ---------------------------------------------------- output of "adb devices"
Header == <<"L">>
ReadyMarker == <<TAB, "d", "e", "v", "i", "c", "e">>
StatusWords ==
    { <<"d", "e", "v", "i", "c", "e">>,
      <<"o", "f", "f", "l", "i", "n", "e">>,
      <<"u", "n", "a", "u", "t", "h", "o", "r", "i", "z", "e", "d">>,
      << >> }
\* a line after the header: serial, separator, status word, trailing text
DeviceLines ==
    { serial \o sep \o status \o trail :
        serial \in { << >>, <<"e">> },
        sep \in { <<TAB>>, <<SP>>, << >> },
        status \in StatusWords,
        trail \in { << >>, <<"s">>, <<SP>> } }

RECURSIVE JoinLines(_)
JoinLines(lines) ==
    IF lines = << >> THEN << >>
    ELSE Head(lines) \o <<NL>> \o JoinLines(Tail(lines))

RECURSIVE LineListsUpTo(_)
LineListsUpTo(n) ==
    IF n = 0 THEN { << >> }
    ELSE LET shorter == LineListsUpTo(n - 1) IN
         shorter \cup { Append(ls, l) : ls \in shorter, l \in DeviceLines }

\* the captured standard output: nothing at all, or the header and the lines,
\* each ended by a newline, and the blank line adb ends its listing with
Stdouts ==
    { << >> } \cup
    { JoinLines(<<Header>> \o ls) \o <<NL>> : ls \in LineListsUpTo(MaxDevLines) }

\* subprocess.run([adb, 'devices'], check=True, timeout=10): how it ends
AdbDevicesResults ==
    { [kind |-> k, stdout |-> << >>] : k \in {"not_found", "nonzero", "timeout"} }
    \cup { [kind |-> "ok", stdout |-> s] : s \in Stdouts }

\* -------------------------------------------- AdbSmsHelper.check_device_connection
RECURSIVE KeepReady(_)
KeepReady(lines) ==
    IF lines = << >> THEN << >>
    ELSE IF Strip(Head(lines)) # << >> /\ Contains(Head(lines), ReadyMarker)
         THEN << Head(lines) >> \o KeepReady(Tail(lines))
         ELSE KeepReady(Tail(lines))

ConnectedDevices(stdout) ==
    LET device_lines == Split(Strip(stdout), NL) IN
    KeepReady(Tail(device_lines))

CheckDeviceConnection(result) ==
    IF result.kind = "ok"
    THEN ConnectedDevices(result.stdout) # << >>
    ELSE FALSE      \* FileNotFoundError, CalledProcessError, TimeoutExpired

\* ------------------------------------------------- AdbSmsHelper.send_sms_intent
ReturnCodes == {0, 1, 255}
StderrTexts == { << >>, <<"E">> }

\* Popen(...) and communicate(timeout=15): how they end
SendOutcomes ==
    { [kind |-> "exited", returncode |-> Some(rc), stderr |-> e] :
        rc \in ReturnCodes, e \in StderrTexts }
    \cup { [kind |-> "timeout", returncode |-> None, stderr |-> << >>],
           [kind |-> "popen_error", returncode |-> None, stderr |-> << >>] }

\* a send_sms_intent that takes an empty stderr for success
SendSmsIntentQuietIsSuccess(o) ==
    IF o.kind = "popen_error"
    THEN [ret |-> FALSE, raised |-> FALSE, printed |-> "An unexpected error occurred"]
    ELSE IF o.kind = "timeout"
    THEN [ret |-> FALSE, raised |-> FALSE, printed |-> "ADB command timed out"]
    ELSE IF o.returncode = Some(0) \/ o.stderr = << >>
    THEN [ret |-> TRUE, raised |-> FALSE, printed |-> "Intent sent successfully!"]
    ELSE [ret |-> FALSE, raised |-> FALSE, printed |-> "ADB Error"]

\* the value returned, whether an exception leaves the method, what is printed
SendSmsIntent(o) ==
    IF o.kind = "popen_error"
    THEN [ret |-> FALSE, raised |-> FALSE, printed |-> "An unexpected error occurred"]
    ELSE IF o.kind = "timeout"
    THEN [ret |-> FALSE, raised |-> FALSE, printed |-> "ADB command timed out"]
    ELSE IF o.returncode = Some(0)
    THEN [ret |-> TRUE, raised |-> FALSE, printed |-> "Intent sent successfully!"]
    ELSE IF o.stderr # << >>
    THEN [ret |-> FALSE, raised |-> FALSE, printed |-> "ADB Error"]
    ELSE [ret |-> FALSE, raised |-> FALSE,
          printed |-> "ADB command failed with no specific error message."]

\* the child of a dispatch is left running only when communicate() times out:
\* Popen.communicate does not kill the child, and the handler does not either
ChildLeftRunning(o) == o.kind = "timeout"

\* --------------------------------------------------------------- input parsing
\* line 171: direct mode
ParseNumbersArg(numbers) == StripEach(Split(numbers, ","))

\* line 126: interactive mode, on the stripped line
ParseRecipientInput(recipient_input) ==
    NonEmptyOnly(StripEach(Split(recipient_input, ",")))

\* line 183
Confirmed(answer) == Lower(Strip(answer)) = <<"y">>

\* a main() that ignores the result of the check
AbortsRunNever(ok) == FALSE

\* line 166: main() gives up when the check fails
AbortsRun(ok) == ~ok

\* line 194: a pause follows every recipient but the last
PauseFollows(idx, total) == idx < total - 1

\* a loop that gives up the remaining recipients when the sleep is interrupted
PcAfterPauseAbort(interrupted) == IF interrupted THEN "summary" ELSE "send"

\* lines 195-199: after the sleep, interrupted or not, the loop goes on
PcAfterPause(interrupted) == "send"

\* a loop that counts every dispatch as a success
CountSuccessAlways(successes, ret) == successes + 1

\* line 192
CountSuccess(successes, ret) == IF ret THEN successes + 1 ELSE successes

\* ----------------------------------------------------------------------- state
VARIABLES
    pc,                 \* where main() is
    delay,              \* args.delay
    adb_result,         \* optional: how "adb devices" ended (its output is kept
                        \* only until check_device_connection has returned)
    device_ok,          \* optional: what check_device_connection returned
    mode,               \* "none", "direct" or "interactive"
    numbers_input,      \* the numbers string last taken from -n or the prompt
    recipient_numbers,
    message_text,
    prompted,           \* whether input() has been called
    i,                  \* index of the current recipient, from 0
    successful_sends,
    total_sends,
    calls,              \* the calls of send_sms_intent so far: number, message, result
    last_call,          \* optional: how the last call ended
    children,           \* calls whose adb child process is still running
    sleeps,             \* calls of time.sleep so far
    interrupts,         \* KeyboardInterrupts caught so far
    out,                \* what the last step printed
    summary,            \* optional: the counts of the final report
    exit_code           \* optional: the exit status of the process

vars == << pc, delay, adb_result, device_ok, mode, numbers_input, recipient_numbers,
           message_text, prompted, i, successful_sends, total_sends, calls,
           last_call, children, sleeps, interrupts, out, summary, exit_code >>

inputVars == << mode, numbers_input, recipient_numbers, message_text >>
loopVars == << i, successful_sends, total_sends, calls, last_call, sleeps, interrupts >>

Init ==
    /\ pc = "check"
    /\ delay \in Delays
    /\ adb_result = None
    /\ device_ok = None
    /\ mode = "none"
    /\ numbers_input = None
    /\ recipient_numbers = << >>
    /\ message_text = << >>
    /\ prompted = FALSE
    /\ i = 0
    /\ successful_sends = 0
    /\ total_sends = 0
    /\ calls = << >>
    /\ last_call = None
    /\ children = {}
    /\ sleeps = 0
    /\ interrupts = 0
    /\ out = << "--- ADB SMS Sender ---" >>
    /\ summary = None
    /\ exit_code = None

\* line 166, the call: helper.check_device_connection()
CheckDevice ==
    /\ pc = "check"
    /\ \E result \in AdbDevicesResults :
        /\ adb_result' = Some(result)
        /\ device_ok' = Some(CheckDeviceConnection(result))
        /\ out' = IF result.kind = "not_found" THEN << "Error: The command was not found." >>
                  ELSE IF result.kind \in {"nonzero", "timeout"}
                  THEN << "An error occurred while checking for ADB devices" >>
                  ELSE IF ConnectedDevices(result.stdout) = << >>
                  THEN << "Error: No authorized Android device found." >>
                  ELSE << "Found connected device(s):" >>
    /\ pc' = "checked"
    /\ UNCHANGED << delay, inputVars, prompted, loopVars, children, summary, exit_code >>

\* lines 166-167: sys.exit(1) when the check failed
DeviceGate ==
    /\ pc = "checked"
    /\ adb_result' = Some([adb_result[1] EXCEPT !.stdout = << >>])
    /\ IF AbortsRun(device_ok[1])
       THEN /\ pc' = "exited"
            /\ exit_code' = Some(1)
       ELSE /\ pc' = "select"
            /\ UNCHANGED exit_code
    /\ UNCHANGED << delay, device_ok, inputVars, prompted, loopVars, children, out,
                    summary >>

\* lines 169-180: direct mode when both -n and -m are given and truthy
SelectMode ==
    /\ pc = "select"
    /\ \E numbers \in NumberArgs, message \in MessageArgs :
        IF Truthy(numbers) /\ Truthy(message)
        THEN /\ mode' = "direct"
             /\ numbers_input' = numbers
             /\ recipient_numbers' = ParseNumbersArg(numbers[1])
             /\ message_text' = message[1]
             /\ out' = << "Using provided arguments:", "Recipient(s):", "Message:" >>
             /\ pc' = "confirm"
        ELSE /\ mode' = "interactive"
             /\ pc' = "ask_numbers"
             /\ UNCHANGED << numbers_input, recipient_numbers, message_text, out >>
    /\ UNCHANGED << delay, adb_result, device_ok, prompted, loopVars, children,
                    summary, exit_code >>

\* lines 121-130: one pass of the first prompt loop of run_interactive_mode
AskNumbers ==
    /\ pc = "ask_numbers"
    /\ \E line \in NumberStrings :
        LET recipient_input == Strip(line)
            parsed == ParseRecipientInput(recipient_input)
        IN  /\ numbers_input' = Some(line)
            /\ IF recipient_input = << >>
               THEN /\ out' = << "Input cannot be empty. Please try again." >>
                    /\ UNCHANGED << pc, recipient_numbers >>
               ELSE IF parsed # << >>
               THEN /\ recipient_numbers' = parsed
                    /\ out' = << >>
                    /\ pc' = "ask_message"
               ELSE /\ out' = << "No valid phone numbers entered. Please try again." >>
                    /\ UNCHANGED << pc, recipient_numbers >>
    /\ prompted' = TRUE
    /\ UNCHANGED << delay, adb_result, device_ok, mode, message_text, loopVars,
                    children, summary, exit_code >>

\* lines 132-139 and 177-180: one pass of the second prompt loop
AskMessage ==
    /\ pc = "ask_message"
    /\ \E line \in MessageStrings :
        LET stripped == Strip(line) IN
        IF stripped # << >>
        THEN /\ message_text' = stripped
             /\ out' = << "--- Summary ---", "Recipient(s):", "Message:" >>
             /\ pc' = "confirm"
        ELSE /\ out' = << "Message content cannot be empty." >>
             /\ UNCHANGED << pc, message_text >>
    /\ prompted' = TRUE
    /\ UNCHANGED << delay, adb_result, device_ok, mode, numbers_input,
                    recipient_numbers, loopVars, children, summary, exit_code >>

\* lines 182-188: the confirmation prompt
Confirm ==
    /\ pc = "confirm"
    /\ prompted' = TRUE
    /\ \E answer \in ConfirmAnswers :
        IF Confirmed(answer)
        THEN /\ successful_sends' = 0
             /\ total_sends' = Len(recipient_numbers)
             /\ i' = 0
             /\ pc' = IF Len(recipient_numbers) = 0 THEN "summary" ELSE "send"
             /\ out' = << >>
             /\ UNCHANGED exit_code
        ELSE /\ out' = << "Operation cancelled." >>
             /\ pc' = "exited"
             /\ exit_code' = Some(0)
             /\ UNCHANGED << successful_sends, total_sends, i >>
    /\ UNCHANGED << delay, adb_result, device_ok, inputVars, calls, last_call,
                    children, sleeps, interrupts, summary >>

\* lines 190-197: one recipient, up to the call of time.sleep or the end of the loop
Send ==
    /\ pc = "send"
    /\ \E o \in SendOutcomes :
        LET r == SendSmsIntent(o)
            n == Len(calls) + 1
        IN  /\ calls' = Append(calls, [number |-> recipient_numbers[i + 1],
                                       message |-> message_text,
                                       ret |-> r.ret])
            /\ last_call' = Some([kind |-> o.kind, returncode |-> o.returncode,
                                  stderr |-> o.stderr, ret |-> r.ret,
                                  raised |-> r.raised])
            /\ children' = IF ChildLeftRunning(o) THEN children \cup {n} ELSE children
            /\ IF r.raised
               THEN /\ pc' = "exited"
                    /\ exit_code' = Some(1)
                    /\ out' = << "Traceback (most recent call last):" >>
                    /\ UNCHANGED << successful_sends, sleeps >>
               ELSE /\ successful_sends' = CountSuccess(successful_sends, r.ret)
                    /\ UNCHANGED exit_code
                    /\ IF PauseFollows(i, total_sends)
                       THEN /\ pc' = "sleep"
                            /\ sleeps' = sleeps + 1
                            /\ out' = << r.printed, "Waiting before next recipient." >>
                       ELSE /\ pc' = "summary"
                            /\ out' = << r.printed >>
                            /\ UNCHANGED sleeps
    /\ UNCHANGED << delay, adb_result, device_ok, inputVars, prompted, i, total_sends,
                    interrupts, summary >>

\* line 197: time.sleep(args.delay) returns
SleepElapsed ==
    /\ pc = "sleep"
    /\ delay >= 0
    /\ pc' = PcAfterPause(FALSE)
    /\ i' = i + 1
    /\ out' = << >>
    /\ UNCHANGED << delay, adb_result, device_ok, inputVars, prompted, successful_sends,
                    total_sends, calls, last_call, children, sleeps, interrupts,
                    summary, exit_code >>

\* lines 198-199: Ctrl+C during the sleep
SleepInterrupted ==
    /\ pc = "sleep"
    /\ delay >= 0
    /\ interrupts' = interrupts + 1
    /\ pc' = PcAfterPause(TRUE)
    /\ i' = IF PcAfterPause(TRUE) = "send" THEN i + 1 ELSE i
    /\ out' = << "Wait skipped by user." >>
    /\ UNCHANGED << delay, adb_result, device_ok, inputVars, prompted, successful_sends,
                    total_sends, calls, last_call, children, sleeps, summary,
                    exit_code >>

\* line 197: time.sleep of a negative length raises ValueError, which nothing
\* catches: the interpreter prints the traceback and exits with status 1
SleepRaises ==
    /\ pc = "sleep"
    /\ delay < 0
    /\ pc' = "exited"
    /\ exit_code' = Some(1)
    /\ out' = << "Traceback (most recent call last):",
                 "ValueError: sleep length must be non-negative" >>
    /\ UNCHANGED << delay, adb_result, device_ok, inputVars, prompted, loopVars,
                    children, summary >>

\* lines 201-204: the report, and the return from main()
Summary ==
    /\ pc = "summary"
    /\ summary' = Some([ok |-> successful_sends,
                        total |-> total_sends,
                        failed |-> IF successful_sends < total_sends
                                   THEN Some(total_sends - successful_sends)
                                   ELSE None])
    /\ out' = << "--- Task Complete ---" >>
    /\ pc' = "exited"
    /\ exit_code' = Some(0)
    /\ UNCHANGED << delay, adb_result, device_ok, inputVars, prompted, loopVars,
                    children >>

\* an adb child that outlived its dispatch ends by itself
ChildExits ==
    /\ \E c \in children : children' = children \ {c}
    /\ UNCHANGED << pc, delay, adb_result, device_ok, inputVars, prompted, loopVars,
                    out, summary, exit_code >>

Next ==
    \/ CheckDevice
    \/ DeviceGate
    \/ SelectMode
    \/ AskNumbers
    \/ AskMessage
    \/ Confirm
    \/ Send
    \/ SleepElapsed
    \/ SleepInterrupted
    \/ SleepRaises
    \/ Summary
    \/ ChildExits

Spec == Init /\ [][Next]_vars

\* ---------------------------------------------------------------- the claims
RECURSIVE CountRet(_, _)
CountRet(cs, b) ==
    IF cs = << >> THEN 0
    ELSE (IF Head(cs).ret = b THEN 1 ELSE 0) + CountRet(Tail(cs), b)

CalledNumbers == [k \in 1..Len(calls) |-> calls[k].number]

\* the non-empty, whitespace-trimmed substrings between the commas, in order
ExpectedRecipients(s) == NonEmptyOnly(StripEach(Split(s, ",")))

EndsWith(s, suffix) ==
    Len(suffix) <= Len(s) /\ Slice(s, Len(s) - Len(suffix) + 1, Len(s)) = suffix

\* a device line as the data model describes a ready one
ReadyLine(line) == Strip(line) # << >> /\ EndsWith(line, ReadyMarker)

\* C1: no send_sms_intent is ever called with a message that is empty after
\* trimming, and none is called at all when the numbers string holds no
\* non-empty recipient.
C1_EmptyInputRejected ==
    /\ \A k \in 1..Len(calls) : Strip(calls[k].message) # << >>
    /\ calls # << >> => ExpectedRecipients(numbers_input[1]) # << >>

\* C2: the recipient list main() dispatches to is the list of the non-empty,
\* trimmed, comma-separated substrings of the numbers string, in order, so it
\* holds no blank recipient.
C2_RecipientsParsed ==
    calls # << >> =>
        /\ recipient_numbers = ExpectedRecipients(numbers_input[1])
        /\ \A k \in 1..Len(recipient_numbers) : recipient_numbers[k] # << >>

\* C3: the process exits with 1 when the device check found no ready device and
\* with 0 in every other termination.
C3_ExitCode ==
    pc = "exited" =>
        exit_code = IF device_ok = Some(FALSE) THEN Some(1) ELSE Some(0)

\* C4: a check that ends in a missing executable, a non-zero exit or a timeout
\* returns False; once the check has returned False the run ends with status 1;
\* and no prompt is read and no send_sms_intent is called unless the check
\* returned True.
C4_AbortsWithoutDevice ==
    /\ (adb_result # None /\ adb_result[1].kind # "ok") => device_ok = Some(FALSE)
    /\ (device_ok = Some(FALSE) /\ pc # "checked") =>
            (pc = "exited" /\ exit_code = Some(1))
    /\ (prompted \/ calls # << >>) => device_ok = Some(TRUE)

C4_Witness ==
    /\ pc = "exited"
    /\ adb_result[1].kind = "not_found"
    /\ device_ok = Some(FALSE)
    /\ ~prompted
    /\ calls = << >>

\* C5: a confirmed run over N recipients dispatches to each of them once, in
\* list order, and calls sleep N-1 times: once between two consecutive
\* dispatches and not after the last.
C5_DispatchAndSleepCounts ==
    /\ Len(calls) <= Len(recipient_numbers)
    /\ CalledNumbers = Slice(recipient_numbers, 1, Len(calls))
    /\ pc = "send" => sleeps = Len(calls)
    /\ (pc = "exited" /\ total_sends > 0) =>
            (Len(calls) = total_sends /\ sleeps = total_sends - 1)

C7_SuccessIffExitZero ==
    last_call # None =>
        LET c == last_call[1] IN
        /\ c.ret <=> (c.kind = "exited" /\ c.returncode = Some(0))
        /\ (c.kind = "timeout" \/ (c.kind = "exited" /\ c.returncode # Some(0))) =>
                (~c.ret /\ ~c.raised)
        /\ calls[Len(calls)].ret = c.ret

C7_Witness ==
    /\ last_call # None
    /\ last_call[1].kind = "exited"
    /\ last_call[1].returncode = Some(255)
    /\ last_call[1].stderr = << >>
    /\ ~last_call[1].ret
    /\ pc = "sleep"

\* C8: no adb child started by a dispatch is still running when the next
\* dispatch starts or when the report is printed.
C8_NoChildLeftRunning ==
    (pc = "send" \/ summary # None) => children = {}

\* C9: once a sleep has been interrupted the loop goes on with the next
\* recipient: the dispatches made are the recipients in order, each once, no
\* step is stuck, and the run ends with the report over all N recipients and
\* status 0.
C9_InterruptRecoverable ==
    interrupts > 0 =>
        /\ interrupts <= sleeps
        /\ CalledNumbers = Slice(recipient_numbers, 1, Len(calls))
        /\ pc \in {"send", "sleep", "summary", "exited"}
        /\ pc = "send" => (Len(calls) = i /\ i < total_sends)
        /\ pc # "exited" => ENABLED (Send \/ SleepElapsed \/ Summary)
        /\ pc = "exited" =>
                /\ summary # None
                /\ exit_code = Some(0)
                /\ CalledNumbers = recipient_numbers

C9_Witness ==
    /\ pc = "exited"
    /\ interrupts >= 2
    /\ summary # None
    /\ CalledNumbers = recipient_numbers

\* C10: check_device_connection returns True exactly when adb exited with 0 and
\* some line after the first is non-blank and ends with a tab and "device".
C10_ReadyLinesOnly ==
    pc = "checked" =>
        LET r == adb_result[1]
            lines == Tail(Split(Strip(r.stdout), NL))
        IN  device_ok[1] <=>
                (r.kind = "ok" /\ \E k \in 1..Len(lines) : ReadyLine(lines[k]))

====
